---------------------------- MODULE Spec2Model ----------------------------
(***************************************************************************)
(* A model of statistics.py: mean, median, mode, variance, pvariance,      *)
(* stdev and pstdev over a list (or a one-shot iterator over it) of        *)
(* Python numbers.                                                         *)
(*                                                                         *)
(* A Python number is a record [k, n, d]: its type k ("int", "float" or    *)
(* "Fraction") and its value n/d in lowest terms, d > 0.  int and Fraction *)
(* arithmetic is exact.  float arithmetic rounds the exact result of every *)
(* operation to the nearest value with a MantBits-bit significand, ties to *)
(* even, as IEEE 754 does with 53 bits; the exponent range is not bounded, *)
(* so there is no overflow, underflow, infinity or NaN in the model.       *)
(***************************************************************************)
EXTENDS Integers, Sequences, FiniteSets, TLC

\* Longest list the callers build.
MaxLen == 3

\* Bits in a float's significand (53 in CPython; scaled down).
MantBits == 4

\* Longest list that concurrent callers share.
MaxSharedLen == 2

-----------------------------------------------------------------------------
(* Python numbers *)

Abs(i) == IF i < 0 THEN -i ELSE i

RECURSIVE GCD(_, _)
GCD(a, b) == IF b = 0 THEN a ELSE GCD(b, a % b)

RECURSIVE Pow2(_)
Pow2(e) == IF e = 0 THEN 1 ELSE 2 * Pow2(e - 1)

\* The number of type k with value n/d (d > 0), in lowest terms.
Num(k, n, d) ==
    LET g == GCD(Abs(n), d)
    IN  [k |-> k, n |-> n \div g, d |-> d \div g]

PyInt(i) == Num("int", i, 1)

\* a/d (a >= 0, d > 0) rounded to the nearest integer, ties to even.
RoundHalfEven(a, d) ==
    LET f == a \div d
        r == a % d
    IN  IF 2 * r < d THEN f
        ELSE IF 2 * r > d THEN f + 1
        ELSE f + (f % 2)

\* a/d > 0 rounded to MantBits significant bits, times ns/ds.
RECURSIVE RoundPos(_, _, _, _)
RoundPos(a, d, ns, ds) ==
    IF a < Pow2(MantBits - 1) * d THEN RoundPos(2 * a, d, ns, 2 * ds)
    ELSE IF a >= Pow2(MantBits) * d THEN RoundPos(a, 2 * d, 2 * ns, ds)
    ELSE [n |-> RoundHalfEven(a, d) * ns, d |-> ds]

\* The float nearest to n/d.
Float(n, d) ==
    IF n = 0 THEN Num("float", 0, 1)
    ELSE LET r == RoundPos(Abs(n), d, 1, 1)
         IN  Num("float", IF n < 0 THEN -r.n ELSE r.n, r.d)

\* The type of the result of a binary operation.
Coerce(j, k) ==
    IF j = "float" \/ k = "float" THEN "float"
    ELSE IF j = "Fraction" \/ k = "Fraction" THEN "Fraction"
    ELSE "int"

\* The value n/d as a number of type k; a float is rounded; an int
\* result is always integral here.
Make(k, n, d) == IF k = "float" THEN Float(n, d) ELSE Num(k, n, d)

\* An operand of an operation of type k: float arithmetic converts an int
\* or a Fraction to the nearest float first.
Operand(x, k) == IF k = "float" /\ x.k # "float" THEN Float(x.n, x.d) ELSE x

Add(x, y) ==
    LET k == Coerce(x.k, y.k)
        a == Operand(x, k)
        b == Operand(y, k)
    IN  Make(k, a.n * b.d + b.n * a.d, a.d * b.d)

Sub(x, y) ==
    LET k == Coerce(x.k, y.k)
        a == Operand(x, k)
        b == Operand(y, k)
    IN  Make(k, a.n * b.d - b.n * a.d, a.d * b.d)

\* x ** 2
Square(x) == Make(x.k, x.n * x.n, x.d * x.d)

\* x / y under "from __future__ import division", y # 0: two ints give
\* the float nearest their quotient.
TrueDiv(x, y) ==
    LET ints == x.k = "int" /\ y.k = "int"
        k == IF ints THEN "float" ELSE Coerce(x.k, y.k)
        a == IF ints THEN x ELSE Operand(x, k)
        b == IF ints THEN y ELSE Operand(y, k)
        s == IF b.n < 0 THEN -1 ELSE 1
    IN  Make(k, s * a.n * b.d, a.d * Abs(b.n))

Less(x, y) == x.n * y.d < y.n * x.d

\* Python's ==: by value, whatever the types.
Eq(x, y) == x.n * y.d = y.n * x.d

\* a/d > 0 with 4^(MantBits-1) <= a/d < 4^MantBits: its square root rounded
\* to the nearest integer (never a tie to break upward: ties go to even).
RoundSqrt(a, d) ==
    LET m == CHOOSE i \in Pow2(MantBits - 1)..Pow2(MantBits) :
                 i * i * d <= a /\ (i + 1) * (i + 1) * d > a
        h == (2 * m + 1) * (2 * m + 1) * d
    IN  IF 4 * a < h THEN m
        ELSE IF 4 * a > h THEN m + 1
        ELSE m + (m % 2)

\* The square root of a/d > 0 rounded to MantBits significant bits, times
\* ns/ds.
RECURSIVE SqrtPos(_, _, _, _)
SqrtPos(a, d, ns, ds) ==
    IF a < Pow2(2 * (MantBits - 1)) * d THEN SqrtPos(4 * a, d, ns, 2 * ds)
    ELSE IF a >= Pow2(2 * MantBits) * d THEN SqrtPos(a, 4 * d, 2 * ns, ds)
    ELSE [n |-> RoundSqrt(a, d) * ns, d |-> ds]

-----------------------------------------------------------------------------
(* Outcomes of a call: a returned value or a raised exception *)

\* Python's None: an omitted central value, a function falling off its end.
None == [k |-> "None", n |-> 0, d |-> 1]

Return(v) == [tag |-> "ok", val |-> v, msg |-> "", found |-> 0]

\* `found` is the number a message is formatted with (0: none).
Raise(exc, msg, found) == [tag |-> exc, val |-> None, msg |-> msg, found |-> found]

StatisticsError(msg) == Raise("StatisticsError", msg, 0)

\* math.sqrt(x): x is converted to a float, and the square root of that
\* float is rounded to a float; a negative x is a domain error.
sqrt(x) ==
    LET f == Float(x.n, x.d)
    IN  IF f.n < 0 THEN Raise("ValueError", "math domain error", 0)
        ELSE IF f.n = 0 THEN Return(f)
        ELSE LET r == SqrtPos(f.n, f.d, 1, 1)
             IN  Return(Num("float", r.n, r.d))

-----------------------------------------------------------------------------
(* Lists and iterators *)

\* The argument `data` of a call: a list (isiter = FALSE) or a one-shot
\* iterator (isiter = TRUE) holding items.
ListArg(items) == [isiter |-> FALSE, items |-> items]

IterArg(items) == [isiter |-> TRUE, items |-> items]

\* sum(xs): a left fold of + from the int 0; each float addition rounds
\* (CPython from 3.12 on compensates the rounding of a float sum).
RECURSIVE SumFrom(_, _)
SumFrom(acc, xs) ==
    IF xs = <<>> THEN acc ELSE SumFrom(Add(acc, Head(xs)), Tail(xs))

sum(xs) == SumFrom(PyInt(0), xs)

\* x inserted into the ascending s after the elements not greater than it.
RECURSIVE Insert(_, _)
Insert(x, s) ==
    IF s = <<>> THEN <<x>>
    ELSE IF Less(x, Head(s)) THEN <<x>> \o s
    ELSE <<Head(s)>> \o Insert(x, Tail(s))

\* sorted(xs): a new list, ascending, stable.
RECURSIVE SortInto(_, _)
SortInto(s, xs) ==
    IF xs = <<>> THEN s ELSE SortInto(Insert(Head(xs), s), Tail(xs))

sorted(xs) == SortInto(<<>>, xs)

-----------------------------------------------------------------------------
(* The functions of statistics.py *)

\* x / y: a zero divisor raises.
Divide(x, y) ==
    IF y.n = 0 THEN Raise("ZeroDivisionError", "division by zero", 0)
    ELSE Return(TrueDiv(x, y))

\* The object passed as `data`, after "if iter(data) is data: data =
\* list(data)": list() exhausts an iterator; a list is only referred to.
AfterList(d) == IF d.isiter THEN IterArg(<<>>) ELSE d

\* "data.sort()" for "data = sorted(data)": the caller's list is sorted.
AfterSortInPlace(d) ==
    IF d.isiter THEN IterArg(<<>>) ELSE ListArg(sorted(d.items))

\* The object passed as `data`, after "data = sorted(data)": sorted() builds
\* a new list; it exhausts an iterator and leaves a list as it is.
AfterSorted(d) == IF d.isiter THEN IterArg(<<>>) ELSE d

\* mean without its first two lines: len() of an iterator is a TypeError.
meanNoList(d) ==
    LET data == d.items
        data_len == Len(data)
    IN  IF d.isiter
        THEN Raise("TypeError", "object of type 'list_iterator' has no len()", 0)
        ELSE IF data_len < 1
        THEN StatisticsError("mean requires at least one data point")
        ELSE Divide(sum(data), PyInt(data_len))

mean(d) ==
    LET data == d.items
        data_len == Len(data)
    IN  IF data_len < 1
        THEN StatisticsError("mean requires at least one data point")
        ELSE Divide(sum(data), PyInt(data_len))

\* median, from its sorted copy of the data on.
middle(data) ==
    LET data_len == Len(data)
        i == data_len \div 2
    IN  IF data_len = 0 THEN StatisticsError("no median for empty data")
        ELSE IF data_len % 2 = 1 THEN Return(data[i + 1])
        ELSE IF data_len % 2 = 0
        THEN Return(TrueDiv(Add(data[i], data[i + 1]), PyInt(2)))
        ELSE Return(None)

\* median of the data as given, not sorted.
medianUnsorted(d) == middle(d.items)

median(d) == middle(sorted(d.items))

\* The distinct values of xs (by ==), each as first met, in that order.
RECURSIVE Keys(_, _)
Keys(seen, xs) ==
    IF xs = <<>> THEN seen
    ELSE IF \E i \in 1..Len(seen) : Eq(seen[i], Head(xs))
    THEN Keys(seen, Tail(xs))
    ELSE Keys(Append(seen, Head(xs)), Tail(xs))

\* collections.Counter(iter(xs)) as its items, in insertion order.
Counter(xs) ==
    LET keys == Keys(<<>>, xs)
    IN  [j \in 1..Len(keys) |->
            [val |-> keys[j],
             cnt |-> Cardinality({i \in 1..Len(xs) : Eq(xs[i], keys[j])})]]

\* e inserted into t (descending counts) after the items counting no less.
RECURSIVE InsertByCount(_, _)
InsertByCount(e, t) ==
    IF t = <<>> THEN <<e>>
    ELSE IF Head(t).cnt < e.cnt THEN <<e>> \o t
    ELSE <<Head(t)>> \o InsertByCount(e, Tail(t))

\* Counter.most_common(): the items by descending count, stable.
RECURSIVE MostCommonInto(_, _)
MostCommonInto(t, items) ==
    IF items = <<>> THEN t
    ELSE MostCommonInto(InsertByCount(Head(items), t), Tail(items))

most_common(items) == MostCommonInto(<<>>, items)

\* _counts without its loop: the whole table.
_countsNoCut(data) == most_common(Counter(data))

_counts(data) ==
    LET table == most_common(Counter(data))
    IN  IF table = <<>> THEN table
        ELSE LET maxfreq == table[1].cnt
                 cut == {i \in 2..Len(table) : table[i].cnt # maxfreq}
             IN  IF cut = {} THEN table
                 ELSE SubSeq(table, 1,
                             (CHOOSE i \in cut : \A j \in cut : i <= j) - 1)

\* len() of an iterator is a TypeError.
mode(d) ==
    IF d.isiter
    THEN Raise("TypeError", "object of type 'list_iterator' has no len()", 0)
    ELSE LET data_len == Len(d.items)
         IN  IF data_len = 0 THEN StatisticsError("no mode for empty data")
             ELSE LET table == _counts(d.items)
                      table_len == Len(table)
                  IN  IF table_len # 1
                      THEN Raise("StatisticsError",
                                 "no unique mode; found %d equally common values",
                                 table_len)
                      ELSE Return(table[1].val)

\* sum((x - data_mean)**2 for x in data)
SquaredDeviations(data, data_mean) ==
    sum([i \in 1..Len(data) |-> Square(Sub(data[i], data_mean))])

\* _ss taking a zero data_mean for a missing one ("if not data_mean").
_ssFalsy(data, data_mean) ==
    LET m == IF data_mean = None \/ data_mean.n = 0
             THEN mean(ListArg(data)) ELSE Return(data_mean)
    IN  IF m.tag # "ok" THEN m
        ELSE Return(SquaredDeviations(data, m.val))

\* _ss taking the sum for the mean when none is given.
_ssSumForMean(data, data_mean) ==
    Return(SquaredDeviations(data, IF data_mean = None THEN sum(data) ELSE data_mean))

\* _ss without the squaring.
_ssNoSquare(data, data_mean) ==
    LET m == IF data_mean = None THEN mean(ListArg(data)) ELSE Return(data_mean)
    IN  IF m.tag # "ok" THEN m
        ELSE Return(sum([i \in 1..Len(data) |-> Sub(data[i], m.val)]))

\* data is a list here: variance and pvariance have materialized it.
_ss(data, data_mean) ==
    LET m == IF data_mean = None THEN mean(ListArg(data)) ELSE Return(data_mean)
    IN  IF m.tag # "ok" THEN m
        ELSE Return(SquaredDeviations(data, m.val))

\* variance with pvariance's size check.
varianceMinOne(d, xbar) ==
    LET data == d.items
        data_len == Len(data)
    IN  IF data_len < 1
        THEN StatisticsError("variance requires at least two data points")
        ELSE LET s == _ss(data, xbar)
             IN  IF s.tag # "ok" THEN s
                 ELSE Divide(s.val, PyInt(data_len - 1))

variance(d, xbar) ==
    LET data == d.items
        data_len == Len(data)
    IN  IF data_len < 2
        THEN StatisticsError("variance requires at least two data points")
        ELSE LET s == _ss(data, xbar)
             IN  IF s.tag # "ok" THEN s
                 ELSE Divide(s.val, PyInt(data_len - 1))

\* pvariance with variance's divisor.
pvarianceBessel(d, mux) ==
    LET data == d.items
        data_len == Len(data)
    IN  IF data_len < 1
        THEN StatisticsError("pvariance requires at least one data point")
        ELSE LET s == _ss(data, mux)
             IN  IF s.tag # "ok" THEN s
                 ELSE Divide(s.val, PyInt(data_len - 1))

pvariance(d, mux) ==
    LET data == d.items
        data_len == Len(data)
    IN  IF data_len < 1
        THEN StatisticsError("pvariance requires at least one data point")
        ELSE LET s == _ss(data, mux)
             IN  IF s.tag # "ok" THEN s
                 ELSE Divide(s.val, PyInt(data_len))

\* stdev without the square root.
stdevNoSqrt(d, xbar) == variance(d, xbar)

stdev(d, xbar) ==
    LET v == variance(d, xbar)
    IN  IF v.tag # "ok" THEN v ELSE sqrt(v.val)

pstdev(d, mux) ==
    LET v == pvariance(d, mux)
    IN  IF v.tag # "ok" THEN v ELSE sqrt(v.val)

-----------------------------------------------------------------------------
(* The callers *)

IntVals == {PyInt(-1), PyInt(2), PyInt(3)}

FractionVals == {Num("Fraction", 1, 3), Num("Fraction", 1, 2), Num("Fraction", 3, 2)}

FloatVals == {Num("float", 1, 2), Num("float", 3, 2), Num("float", 7, 2)}

\* The lists of at most n numbers of one type.
Lists(n) ==
    UNION {[1..m -> vals] : m \in 0..n, vals \in {IntVals, FractionVals, FloatVals}}

VARIABLES
    data,     \* the callers' list
    pos,      \* it = iter(data): how many items of data it has yielded
    call,     \* the last call made: function, argument, central value
    result,   \* and its outcome
    pc,       \* per thread: "idle", "entered" (in a call) or "returned"
    op,       \* per thread: the call it is in, or has returned from
    loc,      \* per thread: the list local to its call (median's sorted copy)
    res       \* per thread: the outcome of the call it has returned from

vars == <<data, pos, call, result, pc, op, loc, res>>

\* The state of the threads, and that of the single caller.
tvars == <<pc, op, loc, res>>

svars == <<pos, call, result>>

Threads == {"t1", "t2"}

NoCall == [fn |-> "none", src |-> "none", c |-> None, items |-> <<>>]

NoOp == [fn |-> "none", c |-> None]

Start ==
    /\ pos = 0
    /\ call = NoCall
    /\ result = Return(None)
    /\ pc = [t \in Threads |-> "idle"]
    /\ op = [t \in Threads |-> NoOp]
    /\ loc = [t \in Threads |-> <<>>]
    /\ res = [t \in Threads |-> Return(None)]

Init == data \in Lists(MaxLen) /\ Start

\* The object a caller passes: the list, or the iterator over it.
Arg(src) ==
    IF src = "list" THEN ListArg(data)
    ELSE IterArg(SubSeq(data, pos + 1, Len(data)))

\* The object passed is left as d2.
Store(src, d2) ==
    /\ data' = IF src = "list" THEN d2.items ELSE data
    /\ pos' = IF src = "iter" THEN Len(data) - Len(d2.items) ELSE pos
    /\ UNCHANGED tvars

Sources == {"list", "iter"}

\* The central values a caller passes: none, the mean it computed from the
\* list beforehand, or some other number.
Centers ==
    LET m == mean(ListArg(data))
    IN  {None, PyInt(0), PyInt(2), Num("float", 3, 2)}
            \cup (IF m.tag = "ok" THEN {m.val} ELSE {})

\* The caller calls fn: it holds no outcome of an earlier call any more.
Called(fn, src, c) ==
    /\ call = NoCall
    /\ call' = [fn |-> fn, src |-> src, c |-> c, items |-> Arg(src).items]

\* it = iter(data)
NewIter ==
    /\ call = NoCall
    /\ pos' = 0
    /\ UNCHANGED <<data, call, result, tvars>>

Mean(src) ==
    /\ Called("mean", src, None)
    /\ result' = mean(Arg(src))
    /\ Store(src, AfterList(Arg(src)))

Median(src) ==
    /\ Called("median", src, None)
    /\ result' = median(Arg(src))
    /\ Store(src, AfterSorted(Arg(src)))

Mode(src) ==
    /\ Called("mode", src, None)
    /\ result' = mode(Arg(src))
    /\ UNCHANGED <<data, pos, tvars>>

Variance(src, xbar) ==
    /\ Called("variance", src, xbar)
    /\ result' = variance(Arg(src), xbar)
    /\ Store(src, AfterList(Arg(src)))

PVariance(src, mux) ==
    /\ Called("pvariance", src, mux)
    /\ result' = pvariance(Arg(src), mux)
    /\ Store(src, AfterList(Arg(src)))

Stdev(src, xbar) ==
    /\ Called("stdev", src, xbar)
    /\ result' = stdev(Arg(src), xbar)
    /\ Store(src, AfterList(Arg(src)))

PStdev(src, mux) ==
    /\ Called("pstdev", src, mux)
    /\ result' = pstdev(Arg(src), mux)
    /\ Store(src, AfterList(Arg(src)))

\* The caller is done with the outcome of its last call.
Discard ==
    /\ call # NoCall
    /\ call' = NoCall
    /\ result' = Return(None)
    /\ UNCHANGED <<data, pos, tvars>>

Next ==
    \/ NewIter
    \/ Discard
    \/ \E src \in Sources : Mean(src)
    \/ \E src \in Sources : Median(src)
    \/ \E src \in Sources : Mode(src)
    \/ \E src \in Sources, c \in Centers : Variance(src, c)
    \/ \E src \in Sources, c \in Centers : PVariance(src, c)
    \/ \E src \in Sources, c \in Centers : Stdev(src, c)
    \/ \E src \in Sources, c \in Centers : PStdev(src, c)

Spec == Init /\ [][Next]_vars

-----------------------------------------------------------------------------
(* Concurrent callers of the functions on one shared list *)

Functions == {"mean", "median", "mode", "variance", "pvariance", "stdev", "pstdev"}

\* fn(d) or fn(d, c)
Apply(fn, d, c) ==
    CASE fn = "mean" -> mean(d)
      [] fn = "median" -> median(d)
      [] fn = "mode" -> mode(d)
      [] fn = "variance" -> variance(d, c)
      [] fn = "pvariance" -> pvariance(d, c)
      [] fn = "stdev" -> stdev(d, c)
      [] fn = "pstdev" -> pstdev(d, c)

\* The shared list after the first statement of fn has run on it.
AfterEntry(fn) ==
    CASE fn = "median" -> AfterSorted(ListArg(data)).items
      [] fn = "mode" -> data
      [] OTHER -> AfterList(ListArg(data)).items

\* Thread t calls fn on the shared list and runs its first statement:
\* median binds its sorted copy; the others keep referring to the list.
Enter(t, fn, c) ==
    /\ pc[t] = "idle"
    /\ fn \in {"mean", "median", "mode"} => c = None
    /\ pc' = [pc EXCEPT ![t] = "entered"]
    /\ op' = [op EXCEPT ![t] = [fn |-> fn, c |-> c]]
    /\ loc' = [loc EXCEPT ![t] = IF fn = "median" THEN sorted(data) ELSE <<>>]
    /\ data' = AfterEntry(fn)
    /\ UNCHANGED <<res, svars>>

\* Thread t runs the rest of its call: median on its copy, the others on
\* the shared list as it is now.
Leave(t) ==
    /\ pc[t] = "entered"
    /\ pc' = [pc EXCEPT ![t] = "returned"]
    /\ res' = [res EXCEPT ![t] =
                   IF op[t].fn = "median" THEN middle(loc[t])
                   ELSE Apply(op[t].fn, ListArg(data), op[t].c)]
    /\ UNCHANGED <<data, op, loc, svars>>

\* Thread t is done with the outcome of its call.
Drop(t) ==
    /\ pc[t] = "returned"
    /\ pc' = [pc EXCEPT ![t] = "idle"]
    /\ op' = [op EXCEPT ![t] = NoOp]
    /\ loc' = [loc EXCEPT ![t] = <<>>]
    /\ res' = [res EXCEPT ![t] = Return(None)]
    /\ UNCHANGED <<data, svars>>

InitShared == data \in Lists(MaxSharedLen) /\ Start

NextShared ==
    \/ \E t \in Threads, fn \in Functions, c \in {None, PyInt(0)} : Enter(t, fn, c)
    \/ \E t \in Threads : Leave(t)
    \/ \E t \in Threads : Drop(t)

SpecShared == InitShared /\ [][NextShared]_vars

-----------------------------------------------------------------------------
(* Properties *)

\* The elements the last call's argument held when the call was made.
Xs == call.items

N == Len(Xs)

\* The exact sum of xs[1..i], as a fraction n/d (not in lowest terms).
RECURSIVE ExactSum(_, _)
ExactSum(xs, i) ==
    IF i = 0 THEN [n |-> 0, d |-> 1]
    ELSE LET r == ExactSum(xs, i - 1)
         IN  [n |-> r.n * xs[i].d + xs[i].n * r.d, d |-> r.d * xs[i].d]

Times(xs, v) == Cardinality({i \in 1..Len(xs) : Eq(xs[i], v)})

IsAscending(s) == \A i \in 1..Len(s) - 1 : ~Less(s[i + 1], s[i])

IsPermutation(s, xs) ==
    /\ Len(s) = Len(xs)
    /\ \A i \in 1..Len(xs) : Times(s, xs[i]) = Times(xs, xs[i])

\* C1: mean returns the sum of the elements divided by their count, for a
\* list and for an iterator alike (the result is that of the list of the
\* iterator's elements, exact for Fractions and the nearest float for ints),
\* and raises StatisticsError, returning nothing, when there is no element.
C1_MeanIsSumOverCount ==
    call.fn = "mean" =>
        IF N = 0
        THEN result = StatisticsError("mean requires at least one data point")
        ELSE /\ result = Return(TrueDiv(sum(Xs), PyInt(N)))
             /\ result = mean(ListArg(Xs))
             /\ Xs[1].k = "Fraction" =>
                    result.val = Num("Fraction", ExactSum(Xs, N).n, ExactSum(Xs, N).d * N)
             /\ Xs[1].k = "int" =>
                    result.val = Float(ExactSum(Xs, N).n, ExactSum(Xs, N).d * N)

\* mean has returned the mean of a one-shot iterator of several elements,
\* which is now exhausted.
C1_Witness ==
    /\ call.fn = "mean" /\ call.src = "iter"
    /\ N >= 2 /\ result.tag = "ok" /\ pos = Len(data)

\* C2: median depends only on the ascending sort s of the elements: the
\* middle element itself for an odd count, (s[N/2 - 1] + s[N/2]) / 2 by true
\* division for an even count, StatisticsError for no element, and never
\* falls through without a value.
C2_MedianOfSorted ==
    call.fn = "median" =>
        LET s == sorted(Xs)
            h == N \div 2
        IN  /\ IsAscending(s) /\ IsPermutation(s, Xs)
            /\ N = 0 => result = StatisticsError("no median for empty data")
            /\ N % 2 = 1 => result = Return(s[h + 1])
            /\ (N > 0 /\ N % 2 = 0) =>
                   /\ result = Return(TrueDiv(Add(s[h], s[h + 1]), PyInt(2)))
                   /\ Xs[1].k = "Fraction" =>
                          result.val = Num("Fraction", s[h].n * s[h + 1].d + s[h + 1].n * s[h].d,
                                           2 * s[h].d * s[h + 1].d)
                   /\ Xs[1].k = "int" =>
                          result.val = Float(s[h].n + s[h + 1].n, 2)
            /\ result.tag = "ok" => result.val # None

\* median has averaged the two middle elements of an unsorted list.
C2_Witness ==
    /\ call.fn = "median" /\ N = 2 /\ Less(Xs[2], Xs[1])
    /\ result.tag = "ok" /\ Less(Xs[2], result.val) /\ Less(result.val, Xs[1])

\* C3: on a sequence, mode returns v exactly when v occurs strictly more
\* often than every other value; it raises StatisticsError for empty data,
\* and when k >= 2 values tie for the highest count, reporting exactly k.
C3_ModeIsUniqueLeader ==
    (call.fn = "mode" /\ call.src = "list") =>
        LET vals == {Xs[i] : i \in 1..N}
            leaders == {v \in vals : \A w \in vals : Times(Xs, w) <= Times(Xs, v)}
        IN  /\ N = 0 => result = StatisticsError("no mode for empty data")
            /\ \A v \in vals :
                   result = Return(v) <=>
                       \A w \in vals \ {v} : Times(Xs, w) < Times(Xs, v)
            /\ Cardinality(leaders) >= 2 =>
                   result = Raise("StatisticsError",
                                  "no unique mode; found %d equally common values",
                                  Cardinality(leaders))
            /\ result.tag = "ok" => Cardinality(leaders) = 1

\* mode has returned a value that is not the first of the list.
C3_Witness ==
    /\ call.fn = "mode" /\ call.src = "list" /\ N = 3
    /\ result.tag = "ok" /\ result.val # Xs[1]

\* C4: variance raises StatisticsError exactly when there are fewer than 2
\* elements and pvariance exactly when there is none, whether the central
\* value is given or not; no failing call returns a value or raises
\* anything else (no division by zero).
C4_SizeErrors ==
    /\ call.fn = "variance" =>
           IF N < 2
           THEN result = StatisticsError("variance requires at least two data points")
           ELSE result.tag = "ok" /\ result.val # None
    /\ call.fn = "pvariance" =>
           IF N < 1
           THEN result = StatisticsError("pvariance requires at least one data point")
           ELSE result.tag = "ok" /\ result.val # None

\* variance has refused a single element although a central value was given.
C4_Witness ==
    /\ call.fn = "variance" /\ N = 1 /\ call.c # None
    /\ result.tag = "StatisticsError"

\* Exact arithmetic on values, whatever their types.
Frac(x) == Num("Fraction", x.n, x.d)

Mul(x, y) == Num("Fraction", x.n * y.n, x.d * y.d)

\* The exact sum of (x - c)^2 over xs, expanded:
\* sum(x^2) - 2 c sum(x) + Len(xs) c^2.
ExactSS(xs, c) ==
    LET fs == [i \in 1..Len(xs) |-> Frac(xs[i])]
        s1 == SumFrom(Frac(PyInt(0)), fs)
        s2 == SumFrom(Frac(PyInt(0)), [i \in 1..Len(xs) |-> Mul(fs[i], fs[i])])
    IN  Add(Sub(s2, Mul(Mul(Frac(PyInt(2)), Frac(c)), s1)),
            Mul(Frac(PyInt(Len(xs))), Mul(Frac(c), Frac(c))))

\* The central value the last call works with.
Center == IF call.c = None THEN mean(ListArg(Xs)).val ELSE call.c

\* The last call's divisor: N - 1 for a sample, N for a population.
Divisor == IF call.fn \in {"variance", "stdev"} THEN N - 1 ELSE N

\* The last call is to variance or pvariance with enough elements.
VarianceCalled == call.fn \in {"variance", "pvariance"} /\ Divisor >= 1

\* C5: variance is S / (N - 1) and pvariance S / N, S the sum of (x - c)^2
\* and c the central value given, else mean(data); a given c is used as it
\* is, right or wrong (exactly so in exact arithmetic: Fraction data with a
\* c that is no float, or int data with an int c, whose quotient is the
\* nearest float).
C5_SumOfSquaresOverCount ==
    VarianceCalled =>
        LET S == sum([i \in 1..N |-> Square(Sub(Xs[i], Center))])
            E == ExactSS(Xs, Center)
        IN  /\ result = Return(TrueDiv(S, PyInt(Divisor)))
            /\ (Xs[1].k = "Fraction" /\ Center.k # "float") =>
                   result.val = Num("Fraction", E.n, E.d * Divisor)
            /\ (Xs[1].k = "int" /\ Center.k = "int") =>
                   result.val = Float(E.n, E.d * Divisor)

\* variance has been computed around a given value that is not the mean.
C5_Witness ==
    /\ call.fn = "variance" /\ N = 3 /\ call.c = PyInt(0)
    /\ ~Eq(mean(ListArg(Xs)).val, call.c)
    /\ result.tag = "ok" /\ result # variance(ListArg(Xs), None)

\* C6: the mean of the data given as the central value changes nothing:
\* variance(data, mean(data)) = variance(data) for 2 elements or more, and
\* pvariance(data, mean(data)) = pvariance(data) for 1 or more.
C6_GivenMeanChangesNothing ==
    (VarianceCalled /\ Return(call.c) = mean(ListArg(Xs))) =>
        result = (IF call.fn = "variance" THEN variance(ListArg(Xs), None)
                  ELSE pvariance(ListArg(Xs), None))

\* variance has been given the mean of three elements that differ.
C6_Witness ==
    /\ call.fn = "variance" /\ N = 3 /\ Return(call.c) = mean(ListArg(Xs))
    /\ result.tag = "ok" /\ result.val.n > 0

\* The last call is to variance or pvariance without a central value, on
\* more than one element; Sample and Population are the two variances.
BothVariances == VarianceCalled /\ call.c = None /\ N > 1

Sample == variance(ListArg(Xs), None)

Population == pvariance(ListArg(Xs), None)

AllEqual == \A i \in 1..N : Eq(Xs[i], Xs[1])

\* C7 as claimed: pvariance(data) <= variance(data) for N > 1, with equality
\* exactly when all elements are equal, both variances being 0 then.
C7_EqualityIffAllEqual ==
    BothVariances =>
        /\ result = (IF call.fn = "variance" THEN Sample ELSE Population)
        /\ ~Less(Sample.val, Population.val)
        /\ Eq(Sample.val, Population.val) <=> AllEqual
        /\ AllEqual => Sample.val.n = 0 /\ Population.val.n = 0

\* C7, amended: pvariance(data) <= variance(data) for N > 1; for Fraction
\* data and int data equality holds exactly when all elements are equal,
\* both variances being 0 then (the rounded mean of equal floats need not be
\* their value, and their variances need be neither 0 nor equal).
C7_PopulationAtMostSample ==
    BothVariances =>
        /\ result = (IF call.fn = "variance" THEN Sample ELSE Population)
        /\ ~Less(Sample.val, Population.val)
        /\ Xs[1].k \in {"int", "Fraction"} =>
               /\ Eq(Sample.val, Population.val) <=> AllEqual
               /\ AllEqual => Sample.val.n = 0 /\ Population.val.n = 0

\* pvariance has come out strictly below variance.
C7_Witness ==
    /\ BothVariances /\ call.fn = "pvariance" /\ N = 3
    /\ result.tag = "ok" /\ Less(result.val, Sample.val)

\* C8: variance (N >= 2) and pvariance (N >= 1) are never negative, with no
\* central value or with any.
C8_NonNegative ==
    VarianceCalled => result.tag = "ok" /\ result.val # None /\ result.val.n >= 0

\* pvariance around a value that lies above some elements and below others.
C8_Witness ==
    /\ call.fn = "pvariance" /\ call.c = PyInt(2)
    /\ \E i, j \in 1..N : Less(Xs[i], call.c) /\ Less(call.c, Xs[j])
    /\ result.tag = "ok" /\ result.val.n > 0

\* The last call is to stdev or pstdev; Squared is what variance or
\* pvariance makes of its arguments.
RootCalled == call.fn \in {"stdev", "pstdev"}

Squared ==
    IF call.fn = "stdev" THEN variance(ListArg(Xs), call.c)
    ELSE pvariance(ListArg(Xs), call.c)

\* v is the square of a float.
IsFloatSquared(v) ==
    \E i \in 0..v.n, j \in 1..v.d :
        i * i = v.n /\ j * j = v.d /\ Float(i, j) = Num("float", i, j)

\* r * r = v
SquaresTo(r, v) == r.n * r.n * v.d = v.n * r.d * r.d

\* |r * r - v| <= v * 2^(2 - MantBits): four units of roundoff.
SquaresNear(r, v) ==
    Abs(r.n * r.n * v.d - v.n * r.d * r.d) * Pow2(MantBits - 2) <= v.n * r.d * r.d

C10_ListNeverMutated ==
    [][/\ data' = data
       /\ \A t \in Threads :
              pc'[t] = "returned" =>
                  res'[t] = Apply(op'[t].fn, ListArg(data), op'[t].c)]_vars

\* Two calls are in progress at once on an unsorted list: median, holding
\* its sorted copy, and variance.
C10_Witness ==
    /\ pc["t1"] = "entered" /\ op["t1"].fn = "median" /\ loc["t1"] # data
    /\ pc["t2"] = "entered" /\ op["t2"].fn = "variance"

=============================================================================
